---- MODULE Spec2Model ----
(***************************************************************************)
(* Model of the Taurusqlite webview client (src/webview-src/index.ts).     *)
(*                                                                         *)
(* The client is a facade over invoke(command, payload): every public      *)
(* operation dispatches a command to the host-side executor and hands the  *)
(* caller a promise.  The state is the list of sessions (Taurusqlite       *)
(* instances), the list of calls of public operations with the promise     *)
(* each returned, and the list of commands dispatched to the executor      *)
(* with the reply each received.  The executor is the environment: it      *)
(* replies to any command in flight, in any order, with a value of the     *)
(* shape the command's declared return type allows, or with a failure.     *)
(*                                                                         *)
(* JavaScript values are tagged records [t, v]: t is the type tag and v a  *)
(* sequence.  A string is the sequence of its fragments, so a template     *)
(* literal is the concatenation of its parts.                              *)
(***************************************************************************)
EXTENDS Naturals, Sequences, FiniteSets, TLC

VARIABLES instances, calls, cmds

vars == <<instances, calls, cmds>>

\* Bound on the number of calls of public operations in one behaviour.
MaxCalls == 3

\* Bound on the number of sessions constructed in one behaviour.
MaxSessions == 1

----------------------------------------------------------------------------
\* JavaScript values

Undefined == [t |-> "undefined", v |-> <<>>]

Bool(b) == [t |-> "boolean", v |-> <<IF b THEN "true" ELSE "false">>]

Str(s) == [t |-> "string", v |-> <<s>>]

Arr(s) == [t |-> "array", v |-> s]

Obj(s) == [t |-> "object", v |-> s]

Ref(i) == [t |-> "Taurusqlite", v |-> <<ToString(i)>>]

\* new Error('No results')
NoResultsError == [t |-> "Error", v |-> <<"No results">>]

\* `Unable to open database ${path}.`
UnableToOpen(path) ==
    [t |-> "string", v |-> <<"Unable to open database ">> \o path.v \o <<".">>]

\* the string msg contains the string p
Contains(msg, p) ==
    /\ msg.t = "string"
    /\ \E i \in 1..Len(msg.v) :
          /\ i + Len(p.v) - 1 <= Len(msg.v)
          /\ SubSeq(msg.v, i, i + Len(p.v) - 1) = p.v

\* JavaScript truthiness of the values the model uses
Truthy(x) ==
    CASE x.t = "undefined" -> FALSE
      [] x.t = "boolean"   -> x.v = <<"true">>
      [] x.t = "string"    -> x.v # <<>> /\ x.v # <<"">>
      [] OTHER             -> TRUE

----------------------------------------------------------------------------
\* Inputs of the callers and replies of the executor

Paths == {Str("/a"), Str("/b")}

\* the factories are called with options omitted; the client hands options
\* to the executor without reading them
OptionsArgs == {Undefined}

Queries == {Str("q1")}

ParamsArgs == {Undefined, Arr(<<"1">>)}

PragmaKeys == {Str("foreign_keys")}

PragmaValues == {Str("0")}

BatchArgs ==
    { [t |-> "batch", v |-> << <<"q1", <<"1">>>>, <<"q2", <<>>>> >>],
      [t |-> "batch", v |-> << <<"q2", <<>>>>, <<"q1", <<"1">>>> >>] }

Errors == {Str("e1"), Str("e2")}

Rows == {Arr(<<>>), Arr(<<"r1", "r2">>)}

BoolReplies == {Bool(TRUE), Bool(FALSE)}

\* the success replies of the wire contract, by command
Replies(name) ==
    CASE name = "plugin:taurusqlite|load"   -> Paths
      [] name = "plugin:taurusqlite|select" -> Rows
      [] OTHER                              -> BoolReplies

----------------------------------------------------------------------------
\* The state after the module is loaded: no session, no call, no command
Init ==
    /\ instances = <<>>
    /\ calls = <<>>
    /\ cmds = <<>>

----------------------------------------------------------------------------
\* Building blocks of the operations

\* private constructor(path): the instance's path field is set to path; the
\* field initialiser and the constructor body are one construction
New(path) == [path |-> path, sets |-> 1, opened |-> FALSE]

\* invoke(name, payload) issued by call c: a command in flight
Invoke(c, name, payload) ==
    [call |-> c, name |-> name, payload |-> payload,
     status |-> "inflight", reply |-> Undefined]

\* connect(options) on instance inst, issued by call c
Connect(c, inst, options) ==
    Invoke(c, "plugin:taurusqlite|open",
           [dbPath |-> inst.path,
            options |-> IF options = Undefined THEN Obj(<<>>) ELSE options])

\* a call that returns `new Promise(...)`, settled later by its callbacks
Wrapped(op, i, args, k) ==
    [op |-> op, inst |-> i, args |-> args, wrapped |-> TRUE, cmd |-> k,
     state |-> "pending", value |-> Undefined, settles |-> 0]

\* a call that returns the promise of invoke itself
Direct(op, i, args, k) ==
    [op |-> op, inst |-> i, args |-> args, wrapped |-> FALSE, cmd |-> k,
     state |-> "pending", value |-> Undefined, settles |-> 0]

\* resolve(x) and reject(x) of a `new Promise`: the first one settles it
Resolve(r, x) ==
    IF r.state = "pending"
    THEN [r EXCEPT !.state = "resolved", !.value = x, !.settles = @ + 1]
    ELSE [r EXCEPT !.settles = @ + 1]

Reject(r, x) ==
    IF r.state = "pending"
    THEN [r EXCEPT !.state = "rejected", !.value = x, !.settles = @ + 1]
    ELSE [r EXCEPT !.settles = @ + 1]

\* Returned, had the client treated a false reply as a failure, as open does
ReturnedRejectingFalse(k) ==
    [state |-> CASE cmds[k].status = "inflight" -> "pending"
                 [] cmds[k].status = "ok" /\ cmds[k].reply # Bool(FALSE)
                                                -> "resolved"
                 [] OTHER                       -> "rejected",
     value |-> cmds[k].reply]

\* the promise invoke returned for command k, as the caller of
\* `return invoke(...)` sees it
Returned(k) ==
    [state |-> CASE cmds[k].status = "inflight" -> "pending"
                 [] cmds[k].status = "ok"       -> "resolved"
                 [] OTHER                       -> "rejected",
     value |-> cmds[k].reply]

\* the promise call c handed to its caller
PromiseOf(c) ==
    IF calls[c].wrapped
    THEN [state |-> calls[c].state, value |-> calls[c].value]
    ELSE Returned(calls[c].cmd)

\* sessions the application holds: those a factory has resolved with
Opened == {i \in DOMAIN instances : instances[i].opened}

CanCall == Len(calls) < MaxCalls

CanConstruct == Len(instances) < MaxSessions

----------------------------------------------------------------------------
\* Factories

\* Taurusqlite.load(options)
Load(options) ==
    LET i == Len(instances) + 1
        c == Len(calls) + 1
        k == Len(cmds) + 1
        opts == IF options = Undefined THEN Obj(<<>>) ELSE options
    IN  /\ CanCall /\ CanConstruct
        /\ instances' = Append(instances, New(Str("")))
        /\ cmds' = Append(cmds, Invoke(c, "plugin:taurusqlite|load",
                                       [options |-> opts]))
        /\ calls' = Append(calls, Wrapped("load", i, <<options>>, k))

\* LoadThen without `instance.path = storePath`
LoadThenNoAssign(c, storePath) ==
    /\ c \in DOMAIN calls
    /\ calls[c].op = "load"
    /\ cmds[calls[c].cmd].status = "inflight"
    /\ storePath \in Replies(cmds[calls[c].cmd].name)
    /\ LET i == calls[c].inst
       IN  /\ instances' = [instances EXCEPT ![i].opened = TRUE]
           /\ calls' = [calls EXCEPT ![c] = Resolve(@, Ref(i))]
    /\ cmds' = [cmds EXCEPT ![calls[c].cmd].status = "ok",
                            ![calls[c].cmd].reply = storePath]

\* load: the executor replies storePath;
\* .then(storePath => { instance.path = storePath; resolve(instance) })
LoadThen(c, storePath) ==
    /\ c \in DOMAIN calls
    /\ calls[c].op = "load"
    /\ cmds[calls[c].cmd].status = "inflight"
    /\ storePath \in Replies(cmds[calls[c].cmd].name)
    /\ LET i == calls[c].inst
       IN  /\ instances' = [instances EXCEPT ![i].path = storePath,
                                             ![i].sets = @ + 1,
                                             ![i].opened = TRUE]
           /\ calls' = [calls EXCEPT ![c] = Resolve(@, Ref(i))]
    /\ cmds' = [cmds EXCEPT ![calls[c].cmd].status = "ok",
                            ![calls[c].cmd].reply = storePath]

\* load: the executor fails with e; .catch(reject)
LoadCatch(c, e) ==
    /\ c \in DOMAIN calls
    /\ calls[c].op = "load"
    /\ cmds[calls[c].cmd].status = "inflight"
    /\ calls' = [calls EXCEPT ![c] = Reject(@, e)]
    /\ cmds' = [cmds EXCEPT ![calls[c].cmd].status = "err",
                            ![calls[c].cmd].reply = e]
    /\ UNCHANGED instances

\* Taurusqlite.open(path, options)
Open(path, options) ==
    LET i == Len(instances) + 1
        c == Len(calls) + 1
        k == Len(cmds) + 1
        instance == New(path)
    IN  /\ CanCall /\ CanConstruct
        /\ instances' = Append(instances, instance)
        /\ cmds' = Append(cmds, Connect(c, instance, options))
        /\ calls' = Append(calls, Wrapped("open", i, <<path, options>>, k))

\* OpenThen without the test of success
OpenThenUnchecked(c, success) ==
    /\ c \in DOMAIN calls
    /\ calls[c].op = "open"
    /\ cmds[calls[c].cmd].status = "inflight"
    /\ success \in Replies(cmds[calls[c].cmd].name)
    /\ LET i == calls[c].inst
       IN  /\ instances' = [instances EXCEPT ![i].opened = TRUE]
           /\ calls' = [calls EXCEPT ![c] = Resolve(@, Ref(i))]
    /\ cmds' = [cmds EXCEPT ![calls[c].cmd].status = "ok",
                            ![calls[c].cmd].reply = success]

\* OpenThen assigning the instance's path again before it resolves
OpenThenReassign(c, success) ==
    /\ c \in DOMAIN calls
    /\ calls[c].op = "open"
    /\ cmds[calls[c].cmd].status = "inflight"
    /\ success \in Replies(cmds[calls[c].cmd].name)
    /\ LET i == calls[c].inst
       IN  IF Truthy(success)
           THEN /\ instances' = [instances EXCEPT ![i].path = calls[c].args[1],
                                                  ![i].sets = @ + 1,
                                                  ![i].opened = TRUE]
                /\ calls' = [calls EXCEPT ![c] = Resolve(@, Ref(i))]
           ELSE /\ instances' = instances
                /\ calls' = [calls EXCEPT ![c] =
                                Reject(@, UnableToOpen(calls[c].args[1]))]
    /\ cmds' = [cmds EXCEPT ![calls[c].cmd].status = "ok",
                            ![calls[c].cmd].reply = success]

\* open: the executor replies success;
\* .then(success => { if (success) resolve(instance)
\*                    else reject(`Unable to open database ${path}.`) })
OpenThen(c, success) ==
    /\ c \in DOMAIN calls
    /\ calls[c].op = "open"
    /\ cmds[calls[c].cmd].status = "inflight"
    /\ success \in Replies(cmds[calls[c].cmd].name)
    /\ LET i == calls[c].inst
       IN  IF Truthy(success)
           THEN /\ instances' = [instances EXCEPT ![i].opened = TRUE]
                /\ calls' = [calls EXCEPT ![c] = Resolve(@, Ref(i))]
           ELSE /\ instances' = instances
                /\ calls' = [calls EXCEPT ![c] =
                                Reject(@, UnableToOpen(calls[c].args[1]))]
    /\ cmds' = [cmds EXCEPT ![calls[c].cmd].status = "ok",
                            ![calls[c].cmd].reply = success]

\* OpenCatch rejecting with open's own message instead of e
OpenCatchWrapping(c, e) ==
    /\ c \in DOMAIN calls
    /\ calls[c].op = "open"
    /\ cmds[calls[c].cmd].status = "inflight"
    /\ calls' = [calls EXCEPT ![c] = Reject(@, UnableToOpen(calls[c].args[1]))]
    /\ cmds' = [cmds EXCEPT ![calls[c].cmd].status = "err",
                            ![calls[c].cmd].reply = e]
    /\ UNCHANGED instances

\* open: the executor fails with e; .catch(reject)
OpenCatch(c, e) ==
    /\ c \in DOMAIN calls
    /\ calls[c].op = "open"
    /\ cmds[calls[c].cmd].status = "inflight"
    /\ calls' = [calls EXCEPT ![c] = Reject(@, e)]
    /\ cmds' = [cmds EXCEPT ![calls[c].cmd].status = "err",
                            ![calls[c].cmd].reply = e]
    /\ UNCHANGED instances

----------------------------------------------------------------------------
\* Operations of a session

\* setPragma(key, value)
SetPragma(i, key, value) ==
    LET c == Len(calls) + 1
        k == Len(cmds) + 1
    IN  /\ CanCall /\ i \in Opened
        /\ cmds' = Append(cmds, Invoke(c, "plugin:taurusqlite|set_pragma",
                            [dbPath |-> instances[i].path, key |-> key,
                             value |-> value]))
        /\ calls' = Append(calls, Direct("setPragma", i, <<key, value>>, k))
        /\ UNCHANGED instances

\* select: if (params === undefined) params = [];  and the payload
\* {dbPath: this.path, query, params}
SelectPayload(i, query, params) ==
    [dbPath |-> instances[i].path, query |-> query,
     params |-> IF params = Undefined THEN Arr(<<>>) ELSE params]

\* select(query, params)
Select(i, query, params) ==
    LET c == Len(calls) + 1
        k == Len(cmds) + 1
    IN  /\ CanCall /\ i \in Opened
        /\ cmds' = Append(cmds, Invoke(c, "plugin:taurusqlite|select",
                                       SelectPayload(i, query, params)))
        /\ calls' = Append(calls, Direct("select", i, <<query, params>>, k))
        /\ UNCHANGED instances

\* selectFirst(query, params)
SelectFirst(i, query, params) ==
    LET c == Len(calls) + 1
        k == Len(cmds) + 1
    IN  /\ CanCall /\ i \in Opened
        /\ cmds' = Append(cmds, Invoke(c, "plugin:taurusqlite|select",
                            [dbPath |-> instances[i].path, query |-> query,
                             params |-> params]))
        /\ calls' = Append(calls, Wrapped("selectFirst", i, <<query, params>>, k))
        /\ UNCHANGED instances

\* SelectFirstThen without the test of results.length: results[0] of an
\* empty array is undefined
SelectFirstThenUnchecked(c, results) ==
    /\ c \in DOMAIN calls
    /\ calls[c].op = "selectFirst"
    /\ cmds[calls[c].cmd].status = "inflight"
    /\ results \in Replies(cmds[calls[c].cmd].name)
    /\ calls' = [calls EXCEPT ![c] =
                    IF Len(results.v) > 0
                    THEN Resolve(@, [t |-> "row", v |-> <<results.v[1]>>])
                    ELSE Resolve(@, Undefined)]
    /\ cmds' = [cmds EXCEPT ![calls[c].cmd].status = "ok",
                            ![calls[c].cmd].reply = results]
    /\ UNCHANGED instances

\* SelectFirstThen with resolve and reject kept in one slot shared by the
\* calls of a session: the reply settles the latest selectFirst of the session
SelectFirstThenShared(c, results) ==
    /\ c \in DOMAIN calls
    /\ calls[c].op = "selectFirst"
    /\ cmds[calls[c].cmd].status = "inflight"
    /\ results \in Replies(cmds[calls[c].cmd].name)
    /\ LET same == {d \in DOMAIN calls : /\ calls[d].op = "selectFirst"
                                         /\ calls[d].inst = calls[c].inst}
           last == CHOOSE d \in same : \A d2 \in same : d2 <= d
       IN  calls' = [calls EXCEPT ![last] =
                       IF Len(results.v) > 0
                       THEN Resolve(@, [t |-> "row", v |-> <<results.v[1]>>])
                       ELSE Reject(@, NoResultsError)]
    /\ cmds' = [cmds EXCEPT ![calls[c].cmd].status = "ok",
                            ![calls[c].cmd].reply = results]
    /\ UNCHANGED instances

\* selectFirst: the executor replies results;
\* .then(results => { if (results.length > 0) resolve(results[0])
\*                    else reject(new Error('No results')) })
SelectFirstThen(c, results) ==
    /\ c \in DOMAIN calls
    /\ calls[c].op = "selectFirst"
    /\ cmds[calls[c].cmd].status = "inflight"
    /\ results \in Replies(cmds[calls[c].cmd].name)
    /\ calls' = [calls EXCEPT ![c] =
                    IF Len(results.v) > 0
                    THEN Resolve(@, [t |-> "row", v |-> <<results.v[1]>>])
                    ELSE Reject(@, NoResultsError)]
    /\ cmds' = [cmds EXCEPT ![calls[c].cmd].status = "ok",
                            ![calls[c].cmd].reply = results]
    /\ UNCHANGED instances

\* SelectFirstCatch that dispatches the select command once more on a failure
SelectFirstCatchRetry(c, e) ==
    /\ c \in DOMAIN calls
    /\ calls[c].op = "selectFirst"
    /\ cmds[calls[c].cmd].status = "inflight"
    /\ calls' = [calls EXCEPT ![c].cmd = Len(cmds) + 1]
    /\ cmds' = Append([cmds EXCEPT ![calls[c].cmd].status = "err",
                                   ![calls[c].cmd].reply = e],
                      Invoke(c, cmds[calls[c].cmd].name,
                             cmds[calls[c].cmd].payload))
    /\ UNCHANGED instances

\* selectFirst: the executor fails with e; .catch(reject)
SelectFirstCatch(c, e) ==
    /\ c \in DOMAIN calls
    /\ calls[c].op = "selectFirst"
    /\ cmds[calls[c].cmd].status = "inflight"
    /\ calls' = [calls EXCEPT ![c] = Reject(@, e)]
    /\ cmds' = [cmds EXCEPT ![calls[c].cmd].status = "err",
                            ![calls[c].cmd].reply = e]
    /\ UNCHANGED instances

\* execute(query, params)
Execute(i, query, params) ==
    LET c == Len(calls) + 1
        k == Len(cmds) + 1
        ps == IF params = Undefined THEN Arr(<<>>) ELSE params
    IN  /\ CanCall /\ i \in Opened
        /\ cmds' = Append(cmds, Invoke(c, "plugin:taurusqlite|execute",
                            [dbPath |-> instances[i].path, query |-> query,
                             params |-> ps]))
        /\ calls' = Append(calls, Direct("execute", i, <<query, params>>, k))
        /\ UNCHANGED instances

\* reversal of a sequence
RECURSIVE Reverse(_)
Reverse(q) == IF q = <<>> THEN <<>> ELSE Append(Reverse(Tail(q)), Head(q))

\* Batch marshalling the queries last to first
BatchReversed(i, queries) ==
    LET c == Len(calls) + 1
        k == Len(cmds) + 1
    IN  /\ CanCall /\ i \in Opened
        /\ cmds' = Append(cmds, Invoke(c, "plugin:taurusqlite|batch",
                            [dbPath |-> instances[i].path,
                             queries |-> [queries EXCEPT !.v = Reverse(@)]]))
        /\ calls' = Append(calls, Direct("batch", i, <<queries>>, k))
        /\ UNCHANGED instances

\* batch(queries)
Batch(i, queries) ==
    LET c == Len(calls) + 1
        k == Len(cmds) + 1
    IN  /\ CanCall /\ i \in Opened
        /\ cmds' = Append(cmds, Invoke(c, "plugin:taurusqlite|batch",
                            [dbPath |-> instances[i].path, queries |-> queries]))
        /\ calls' = Append(calls, Direct("batch", i, <<queries>>, k))
        /\ UNCHANGED instances

----------------------------------------------------------------------------
\* The promise of a `return invoke(...)` settles: no callback of the client
\* is attached to it, the caller holds the promise itself

\* the executor replies r to command k
InvokeResolved(k, r) ==
    /\ k \in DOMAIN cmds
    /\ cmds[k].status = "inflight"
    /\ ~calls[cmds[k].call].wrapped
    /\ r \in Replies(cmds[k].name)
    /\ cmds' = [cmds EXCEPT ![k].status = "ok", ![k].reply = r]
    /\ UNCHANGED <<instances, calls>>

\* the executor fails command k with e
InvokeRejected(k, e) ==
    /\ k \in DOMAIN cmds
    /\ cmds[k].status = "inflight"
    /\ ~calls[cmds[k].call].wrapped
    /\ cmds' = [cmds EXCEPT ![k].status = "err", ![k].reply = e]
    /\ UNCHANGED <<instances, calls>>

AllReplies == Paths \cup Rows \cup BoolReplies

Next ==
    \/ \E o \in OptionsArgs : Load(o)
    \/ \E c \in DOMAIN calls, r \in Paths : LoadThen(c, r)
    \/ \E c \in DOMAIN calls, e \in Errors : LoadCatch(c, e)
    \/ \E p \in Paths, o \in OptionsArgs : Open(p, o)
    \/ \E c \in DOMAIN calls, r \in BoolReplies : OpenThen(c, r)
    \/ \E c \in DOMAIN calls, e \in Errors : OpenCatch(c, e)
    \/ \E i \in DOMAIN instances, key \in PragmaKeys, value \in PragmaValues :
          SetPragma(i, key, value)
    \/ \E i \in DOMAIN instances, q \in Queries, ps \in ParamsArgs :
          Select(i, q, ps)
    \/ \E i \in DOMAIN instances, q \in Queries, ps \in ParamsArgs :
          SelectFirst(i, q, ps)
    \/ \E c \in DOMAIN calls, r \in Rows : SelectFirstThen(c, r)
    \/ \E c \in DOMAIN calls, e \in Errors : SelectFirstCatch(c, e)
    \/ \E i \in DOMAIN instances, q \in Queries, ps \in ParamsArgs :
          Execute(i, q, ps)
    \/ \E i \in DOMAIN instances, qs \in BatchArgs : Batch(i, qs)
    \/ \E k \in DOMAIN cmds, r \in AllReplies : InvokeResolved(k, r)
    \/ \E k \in DOMAIN cmds, e \in Errors : InvokeRejected(k, e)

Spec == Init /\ [][Next]_vars

----------------------------------------------------------------------------
\* Vocabulary of the properties

\* the command call c awaits
CmdOf(c) == cmds[calls[c].cmd]

\* the commands call c has dispatched
CmdsOf(c) == {k \in DOMAIN cmds : cmds[k].call = c}

CallsOf(op) == {c \in DOMAIN calls : calls[c].op = op}

InstanceOps == {"setPragma", "select", "selectFirst", "execute", "batch"}

\* the factory call that constructed session i
FactoryOf(i) ==
    CHOOSE c \in DOMAIN calls : calls[c].inst = i /\ calls[c].op \in {"load", "open"}

----------------------------------------------------------------------------
\* C1: when the executor replies false to the "open" command, open(p) rejects
\* with a locally built message that contains p and never resolves; it
\* resolves, with the session, only when the reply is true.
C1_OpenFalseRejectsNamingPath ==
    \A c \in CallsOf("open") :
        /\ (CmdOf(c).status = "ok" /\ CmdOf(c).reply = Bool(FALSE)) =>
              /\ PromiseOf(c).state = "rejected"
              /\ Contains(PromiseOf(c).value, calls[c].args[1])
        /\ PromiseOf(c).state = "resolved" =>
              /\ CmdOf(c).status = "ok" /\ CmdOf(c).reply = Bool(TRUE)
              /\ PromiseOf(c).value = Ref(calls[c].inst)

C1_Witness ==
    \E c \in CallsOf("open") :
        /\ CmdOf(c).status = "ok" /\ CmdOf(c).reply = Bool(FALSE)
        /\ PromiseOf(c).state = "rejected"

\* C2: when the executor replies an empty sequence to selectFirst's "select"
\* command, selectFirst rejects with the local "no results" failure and does
\* not resolve; when it replies a non-empty sequence, selectFirst resolves
\* with the element at the first position of that sequence.
C2_SelectFirstEmptyRejects ==
    \A c \in CallsOf("selectFirst") :
        CmdOf(c).status = "ok" =>
            IF CmdOf(c).reply.v = <<>>
            THEN /\ PromiseOf(c).state = "rejected"
                 /\ PromiseOf(c).value = NoResultsError
            ELSE /\ PromiseOf(c).state = "resolved"
                 /\ PromiseOf(c).value = [t |-> "row", v |-> <<Head(CmdOf(c).reply.v)>>]

C2_Witness ==
    /\ \E c \in CallsOf("selectFirst") :
          /\ CmdOf(c).status = "ok" /\ CmdOf(c).reply.v = <<>>
          /\ PromiseOf(c).state = "rejected"
    /\ \E c \in CallsOf("selectFirst") :
          /\ CmdOf(c).status = "ok" /\ CmdOf(c).reply.v # <<>>
          /\ PromiseOf(c).state = "resolved"

\* C3: selectFirst(query) called with params omitted dispatches the payload
\* select(query) called with params omitted dispatches:
\* {dbPath: path, query, params: empty sequence}.
C3_SelectFirstDefaultsParams ==
    \A c \in CallsOf("selectFirst") :
        calls[c].args[2] = Undefined =>
            \A k \in CmdsOf(c) :
                /\ cmds[k].payload = SelectPayload(calls[c].inst, calls[c].args[1], Undefined)
                /\ cmds[k].payload.params = Arr(<<>>)

\* C4: when the executor fails a command with e, the promise of the
\* operation that dispatched it rejects with exactly e, for every operation.
C4_ExecutorFailurePropagatesUnchanged ==
    \A c \in DOMAIN calls :
        CmdOf(c).status = "err" =>
            /\ PromiseOf(c).state = "rejected"
            /\ PromiseOf(c).value = CmdOf(c).reply
            /\ CmdOf(c).reply \in Errors

C4_Witness ==
    \E c \in CallsOf("selectFirst") :
        /\ CmdOf(c).status = "err"
        /\ PromiseOf(c).state = "rejected"
        /\ PromiseOf(c).value \in Errors

\* C5: load resolves only after the executor has replied to "load", with the
\* session whose path is the path replied; when the executor fails, load
\* rejects with the failure and the session (with its placeholder path) is
\* never handed to the caller.
C5_LoadResolvesWithRepliedPath ==
    \A c \in CallsOf("load") :
        /\ PromiseOf(c).state = "resolved" =>
              /\ CmdOf(c).status = "ok"
              /\ PromiseOf(c).value = Ref(calls[c].inst)
              /\ instances[calls[c].inst].path = CmdOf(c).reply
        /\ CmdOf(c).status = "ok" => PromiseOf(c).state = "resolved"
        /\ CmdOf(c).status = "err" =>
              /\ PromiseOf(c).state = "rejected"
              /\ PromiseOf(c).value = CmdOf(c).reply
        /\ calls[c].inst \in Opened => PromiseOf(c).state = "resolved"

C5_Witness ==
    \E c \in CallsOf("load") :
        /\ PromiseOf(c).state = "resolved"
        /\ instances[calls[c].inst].path \in Paths

\* C6: setPragma, execute and batch resolve with exactly the boolean the
\* executor replied; a reply of false resolves with false and is not turned
\* into a rejection.
C6_BooleanPassedThrough ==
    \A c \in CallsOf("setPragma") \cup CallsOf("execute") \cup CallsOf("batch") :
        CmdOf(c).status = "ok" =>
            /\ PromiseOf(c).state = "resolved"
            /\ PromiseOf(c).value = CmdOf(c).reply

C6_Witness ==
    \E c \in CallsOf("execute") :
        /\ CmdOf(c).status = "ok" /\ CmdOf(c).reply = Bool(FALSE)
        /\ PromiseOf(c).state = "resolved"

\* C7: batch(queries) dispatches one "batch" command whose queries field is
\* the input sequence, pair for pair in the caller's order; when the
\* executor fails it, the batch promise rejects.
C7_BatchSingleOrderedCommand ==
    \A c \in CallsOf("batch") :
        /\ Cardinality(CmdsOf(c)) = 1
        /\ \A k \in CmdsOf(c) :
              /\ cmds[k].name = "plugin:taurusqlite|batch"
              /\ cmds[k].payload.queries = calls[c].args[1]
              /\ cmds[k].payload.dbPath = instances[calls[c].inst].path
        /\ CmdOf(c).status = "err" => PromiseOf(c).state = "rejected"

C7_Witness ==
    \E c \in CallsOf("batch") :
        /\ Len(calls[c].args[1].v) = 2
        /\ calls[c].args[1].v[1] # calls[c].args[1].v[2]
        /\ CmdOf(c).status # "inflight"

\* C8 as stated: the path of a session is set exactly once over the
\* session's whole life, on the open and on the load route.
C8_PathSetExactlyOnce ==
    \A i \in DOMAIN instances : instances[i].sets = 1

\* C8 amended: a session opened by open has had its path set once (by the
\* constructor); a session opened by load has had it set twice (the
\* constructor's placeholder, then the path the executor replied); once a
\* session is opened, no step sets or changes its path again.
C8_PathFixedOnceOpened ==
    /\ [](\A i \in Opened :
            instances[i].sets = IF calls[FactoryOf(i)].op = "open" THEN 1 ELSE 2)
    /\ [][\A i \in Opened : instances'[i] = instances[i]]_vars

C8_Witness ==
    \E i \in Opened :
        /\ calls[FactoryOf(i)].op = "load"
        /\ instances[i].sets = 2
        /\ \E c \in DOMAIN calls :
              /\ calls[c].op \in InstanceOps /\ calls[c].inst = i
              /\ PromiseOf(c).state # "pending"

\* C9: with operations of one session in flight together and replied to in
\* any order, every command carries the dbPath of its call's session, and a
\* call's promise is pending exactly while its own command is in flight and
\* settles with the reply to its own command.
C9_IndependentRoundTrips ==
    \A c \in DOMAIN calls :
        calls[c].op \in InstanceOps =>
            /\ \A k \in CmdsOf(c) : cmds[k].payload.dbPath = instances[calls[c].inst].path
            /\ calls[c].cmd \in CmdsOf(c)
            /\ PromiseOf(c).state = "pending" <=> CmdOf(c).status = "inflight"
            /\ (CmdOf(c).status = "err" \/ calls[c].op # "selectFirst") =>
                  PromiseOf(c).value = CmdOf(c).reply
            /\ (CmdOf(c).status = "ok" /\ calls[c].op = "selectFirst") =>
                  \/ PromiseOf(c).value = NoResultsError /\ CmdOf(c).reply.v = <<>>
                  \/ /\ CmdOf(c).reply.v # <<>>
                     /\ PromiseOf(c).value.v = <<Head(CmdOf(c).reply.v)>>

\* two operations of one session were in flight together and the later one
\* was replied to first
C9_Witness ==
    \E c, d \in DOMAIN calls :
        /\ c < d
        /\ calls[c].op \in InstanceOps /\ calls[d].op \in InstanceOps
        /\ calls[c].inst = calls[d].inst
        /\ PromiseOf(c).state = "pending"
        /\ PromiseOf(d).state # "pending"

\* C10: every call has dispatched exactly one command, whatever the outcome
\* (also after a failure, a false reply to open or an empty reply to
\* selectFirst), and its promise is settled exactly once.
C10_OneCommandOneSettlement ==
    \A c \in DOMAIN calls :
        /\ Cardinality(CmdsOf(c)) = 1
        /\ calls[c].wrapped =>
              calls[c].settles = IF CmdOf(c).status = "inflight" THEN 0 ELSE 1
        /\ CmdOf(c).status # "inflight" => PromiseOf(c).state # "pending"

C10_Witness ==
    /\ \E c \in CallsOf("selectFirst") :
          /\ CmdOf(c).status = "err" /\ calls[c].settles = 1
    /\ \E c \in CallsOf("selectFirst") :
          /\ CmdOf(c).status = "ok" /\ CmdOf(c).reply.v = <<>>
          /\ calls[c].settles = 1

====
